---- MODULE Spec2Model ----
(***************************************************************************)
(* ConstArrayMap: an array-backed map keyed by the variants of a primitive *)
(* enum, with the PrimitiveEnum derive that computes the key layout.       *)
(*                                                                         *)
(* A key-type declaration (DeriveInput) goes through derive, which emits   *)
(* PrimitiveEnumLayout<Discriminant, MAX_VARIANTS> or fails the build.     *)
(* A ConstArrayMap<K, V> owns storage: [V; MAX_VARIANTS]; every accessor   *)
(* indexes it with key_to_index(key) = into_usize(transmute_safe(key)).    *)
(***************************************************************************)
EXTENDS Integers, Sequences, FiniteSets, TLC

(* ------------------------------ bounds --------------------------------- *)

\* Greatest number of variants of a key enum a container is built for.
MaxVariants == 3

\* Greatest number of variants of a declaration handed to the derive alone.
MaxGenVariants == 2

\* Greatest number of attributes on a declaration handed to the derive.
MaxAttrs == 2

\* Greatest number of key => value pairs in one const_array_map! literal.
MaxPairs == 2

\* Width at which the derive's usize arithmetic is carried out in the model.
\* (len - 1 and then + 1 wrap the same way at every width.)
HostUSizeBits == 16

\* How far from each width boundary (0, 2^8, 2^16, 2^31) the values handed
\* to into_usize alone are drawn.
MaxNear == 2

VARIABLES
    input,                  \* the key-type declaration (syn::DeriveInput)
    target_pointer_width,   \* cfg(target_pointer_width) of the build: 16, 32, 64
    layout,                 \* what derive_primitive_enum produced for input
    storage,                \* ConstArrayMap::storage, slot i at storage[i + 1]
    origin,                 \* how the container's contents came to be
    expected,               \* reference map: key -> value an ideal map holds
    out,                    \* the last operation and what it returned
    iter                    \* the live iterator over the values, if any

vars == <<input, target_pointer_width, layout, storage, origin, expected, out, iter>>

(* ----------------------- declarations (syn) ---------------------------- *)

\* Variant::discriminant is an Option: None, or Some((=, expr)).
None == [is_some |-> FALSE, value |-> 0]

Some(v) == [is_some |-> TRUE, value |-> v]

\* #[repr(args)] / #[repr] / #![repr(args)] / #[derive(args)]
Attr(path, style, meta, args) == [path |-> path, style |-> style, meta |-> meta, args |-> args]

ReprAttr(ty) == Attr("repr", "Outer", "List", <<ty>>)

SupportedReprs == {"u8", "u16", "u32", "u64", "usize"}

AttrChoices ==
    {ReprAttr(ty) : ty \in SupportedReprs \cup {"i8"}}
        \cup {Attr("repr", "Outer", "List", <<"C", "u8">>),
              Attr("repr", "Outer", "Path", <<>>),
              Attr("repr", "Inner", "List", <<"u8">>),
              Attr("derive", "Outer", "List", <<"Clone">>)}

SeqsUpTo(S, n) == UNION {[1..m -> S] : m \in 0..n}

\* Explicit discriminants written in the declarations the model draws.
ExplicitChoices == {Some(0), Some(1)}

\* The parts of a declaration the derive reads: the kind of item, its
\* attributes, and each variant's discriminant (variants are fieldless).
DeriveInput(data, attrs, variants) == [data |-> data, attrs |-> attrs, variants |-> variants]

\* #[repr(ty)] enum Letter { A, B, ... } with n variants and no explicit discriminant.
PlainEnum(ty, n) == DeriveInput("Enum", <<ReprAttr(ty)>>, [i \in 1..n |-> None])

\* Every declaration the derive is handed in GenSpec.
GenInputs ==
    {DeriveInput("Enum", a, v) :
        a \in SeqsUpTo(AttrChoices, MaxAttrs),
        v \in SeqsUpTo({None} \cup ExplicitChoices, MaxGenVariants)}
    \cup {DeriveInput("Struct", a, <<>>) : a \in SeqsUpTo(AttrChoices, MaxAttrs)}

(* --------------------- usize arithmetic of the derive ------------------ *)

USizeModulus == 2 ^ HostUSizeBits

\* a - b on usize: panics when overflow checks are compiled in, wraps otherwise.
usize_sub(a, b, overflow_checks) ==
    IF a < b /\ overflow_checks
    THEN [panic |-> TRUE, value |-> 0]
    ELSE [panic |-> FALSE, value |-> (a - b) % USizeModulus]

\* a + b on usize: panics when overflow checks are compiled in, wraps otherwise.
usize_add(a, b, overflow_checks) ==
    IF a + b >= USizeModulus /\ overflow_checks
    THEN [panic |-> TRUE, value |-> 0]
    ELSE [panic |-> FALSE, value |-> (a + b) % USizeModulus]

(* ------------------------------ derive --------------------------------- *)

Ok(repr, n) == [status |-> "Ok", error |-> "", repr |-> repr, value |-> n]

Err(msg) == [status |-> "Err", error |-> msg, repr |-> "", value |-> 0]

Panic(msg) == [status |-> "Panic", error |-> msg, repr |-> "", value |-> 0]

\* match repr_str.as_str() { "u8" => EnumRepr::U8, ... }
EnumRepr(repr_str) ==
    CASE repr_str = "u8" -> "U8"
      [] repr_str = "u16" -> "U16"
      [] repr_str = "u32" -> "U32"
      [] repr_str = "u64" -> "U64"
      [] repr_str = "usize" -> "USize"
      [] OTHER -> "unsupported"

\* impl ToTokens for EnumRepr
to_tokens(repr) ==
    CASE repr = "U8" -> "u8"
      [] repr = "U16" -> "u16"
      [] repr = "U32" -> "u32"
      [] repr = "U64" -> "u64"
      [] repr = "USize" -> "usize"

\* The attributes find visits: outer attributes whose path is the ident repr.
MatchingAttrs(attrs) ==
    {i \in 1..Len(attrs) : attrs[i].path = "repr" /\ attrs[i].style = "Outer"}

\* Mutant of find_repr: the last matching attribute instead of the first.
find_repr_last(attrs) ==
    attrs[CHOOSE i \in MatchingAttrs(attrs) : \A j \in MatchingAttrs(attrs) : j <= i]

\* attrs.iter().find(..): the first of them.
find_repr(attrs) ==
    attrs[CHOOSE i \in MatchingAttrs(attrs) : \A j \in MatchingAttrs(attrs) : i <= j]

parse_repr_attribute(attrs) ==
    IF MatchingAttrs(attrs) = {}
    THEN Err("enum must have a primitive representation")
    ELSE LET attr == find_repr(attrs)
         IN  IF attr.meta # "List"
             THEN Err("expected attribute arguments in parentheses")
             ELSE IF Len(attr.args) # 1
             THEN Err("unexpected token")
             ELSE IF EnumRepr(attr.args[1]) = "unsupported"
             THEN Err("not a supported primitive enum representation")
             ELSE Ok(EnumRepr(attr.args[1]), 0)

\* Mutant of max_discriminant: the number of variants, with the - 1 forgotten.
max_discriminant_len(variants, overflow_checks) ==
    IF \E i \in 1..Len(variants) : variants[i].is_some
    THEN Err("enums that have variants with explicitly set discriminants are not supported")
    ELSE Ok("", Len(variants))

\* Mutant of max_discriminant: explicit discriminants are not looked at.
max_discriminant_unchecked(variants, overflow_checks) ==
    LET r == usize_sub(Len(variants), 1, overflow_checks)
    IN  IF r.panic THEN Panic("attempt to subtract with overflow") ELSE Ok("", r.value)

max_discriminant(variants, overflow_checks) ==
    IF \E i \in 1..Len(variants) : variants[i].is_some
    THEN Err("enums that have variants with explicitly set discriminants are not supported")
    ELSE LET r == usize_sub(Len(variants), 1, overflow_checks)
         IN  IF r.panic THEN Panic("attempt to subtract with overflow") ELSE Ok("", r.value)

\* Mutant of derive: MAX_VARIANTS is the greatest discriminant, with the + 1 forgotten.
derive_no_plus_one(inp, overflow_checks) ==
    IF inp.data # "Enum"
    THEN Err("PrimitiveEnum only applies to enums")
    ELSE LET repr == parse_repr_attribute(inp.attrs)
             max  == max_discriminant(inp.variants, overflow_checks)
         IN  IF repr.status # "Ok" THEN repr
             ELSE IF max.status # "Ok" THEN max
             ELSE Ok(to_tokens(repr.repr), max.value)

derive(inp, overflow_checks) ==
    IF inp.data # "Enum"
    THEN Err("PrimitiveEnum only applies to enums")
    ELSE LET repr == parse_repr_attribute(inp.attrs)
             max  == max_discriminant(inp.variants, overflow_checks)
         IN  IF repr.status # "Ok" THEN repr
             ELSE IF max.status # "Ok" THEN max
             ELSE LET max_variants == usize_add(max.value, 1, overflow_checks)
                  IN  IF max_variants.panic
                      THEN Panic("attempt to add with overflow")
                      ELSE Ok(to_tokens(repr.repr), max_variants.value)

\* What the build holds for the key type after the derive ran:
\* unsafe impl PrimitiveEnum { type Layout = PrimitiveEnumLayout<D, N>; },
\* or nothing but the diagnostic of the macro that panicked in unwrap.
NoLayout == [state |-> "pending", Discriminant |-> "", MAX_VARIANTS |-> 0, diagnostic |-> ""]

derive_primitive_enum(inp, overflow_checks) ==
    LET r == derive(inp, overflow_checks)
    IN  IF r.status = "Ok"
        THEN [state |-> "emitted", Discriminant |-> r.repr,
              MAX_VARIANTS |-> r.value, diagnostic |-> ""]
        ELSE [state |-> "failed", Discriminant |-> "",
              MAX_VARIANTS |-> 0, diagnostic |-> r.error]

(* --------------------- keys and their representation ------------------- *)

\* V of the tests is char; its default is the NUL character.
V_DEFAULT == "nul"

Values == {V_DEFAULT, "x"}

\* The valid values of the key type: its variants, named by position.
Keys(inp) == 1..Len(inp.variants)

\* The discriminant rustc gives variant i: the explicit one, else one more
\* than the previous variant's, starting from 0.
RECURSIVE discriminant(_, _)
discriminant(variants, i) ==
    IF variants[i].is_some THEN variants[i].value
    ELSE IF i = 1 THEN 0
    ELSE discriminant(variants, i - 1) + 1

\* The primitive type named by #[repr(..)] that rustc stores the enum as.
declared_repr(inp) ==
    LET attr == inp.attrs[CHOOSE i \in MatchingAttrs(inp.attrs) :
                              \A j \in MatchingAttrs(inp.attrs) : i <= j]
    IN  attr.args[1]

\* Bits of a primitive integer type on the target.
BITS(ty, tpw) ==
    CASE ty = "u8" -> 8
      [] ty = "u16" -> 16
      [] ty = "u32" -> 32
      [] ty = "u64" -> 64
      [] ty = "usize" -> tpw

\* v reduced to an unsigned integer of the given width. Every number of the
\* model is below 2^31, so a width of 31 bits or more leaves it unchanged.
TruncateTo(v, bits) == IF bits >= 31 THEN v ELSE v % (2 ^ bits)

\* A key value as it lies in memory: its discriminant, stored as the
\* declared primitive type.
KeyValue(inp, key, tpw) ==
    LET ty == declared_repr(inp)
    IN  [ty |-> ty, bits |-> TruncateTo(discriminant(inp.variants, key), BITS(ty, tpw))]

\* mem::transmute_copy(&src): the low size_of::<Dst>() bytes of src, read as Dst.
transmute_copy_safe(src, Dst, tpw) ==
    [ty |-> Dst, bits |-> TruncateTo(src.bits, BITS(Dst, tpw))]

transmute_safe(src, Dst, tpw) == transmute_copy_safe(src, Dst, tpw)

\* simple_type_witness! { enum IntoUSizeWitness { .. } } of each target.
IntoUSizeWitness(tpw) ==
    CASE tpw = 16 -> {"u8", "u16", "usize"}
      [] tpw = 32 -> {"u8", "u16", "u32", "usize"}
      [] tpw = 64 -> {"u8", "u16", "u32", "u64", "usize"}

\* T: ConstIntoUSize holds exactly for the types the target's witness lists.
ConstIntoUSize(ty, tpw) == ty \in IntoUSizeWitness(tpw)

\* value as usize: zero-extension (or truncation) to the pointer width.
as_usize(bits, tpw) == TruncateTo(bits, tpw)

\* Mutant of into_usize: the u16 arm keeps the high byte instead of the value.
into_usize_high_byte(value, tpw) ==
    CASE value.ty = "u8" -> as_usize(value.bits, tpw)
      [] value.ty = "u16" -> as_usize(value.bits \div 256, tpw)
      [] value.ty = "u32" -> as_usize(value.bits, tpw)
      [] value.ty = "u64" -> as_usize(value.bits, tpw)
      [] value.ty = "usize" -> value.bits

\* Mutant of into_usize: the u16 arm casts through u8 on the way to usize.
into_usize_through_u8(value, tpw) ==
    CASE value.ty = "u8" -> as_usize(value.bits, tpw)
      [] value.ty = "u16" -> as_usize(TruncateTo(value.bits, 8), tpw)
      [] value.ty = "u32" -> as_usize(value.bits, tpw)
      [] value.ty = "u64" -> as_usize(value.bits, tpw)
      [] value.ty = "usize" -> value.bits

into_usize(value, tpw) ==
    CASE value.ty = "u8" -> as_usize(value.bits, tpw)
      [] value.ty = "u16" -> as_usize(value.bits, tpw)
      [] value.ty = "u32" -> as_usize(value.bits, tpw)
      [] value.ty = "u64" -> as_usize(value.bits, tpw)
      [] value.ty = "usize" -> value.bits

\* key: K -> K::Impl (EnumKeyImpl, repr(transparent)) -> K::Repr -> usize
key_to_index(inp, lay, tpw, key) ==
    LET k    == KeyValue(inp, key, tpw)
        impl == transmute_safe(k, k.ty, tpw)
        repr == transmute_safe(impl, lay.Discriminant, tpw)
    IN  into_usize(repr, tpw)

(* ------------------------- ConstArrayMap accessors --------------------- *)

Ref(v) == [kind |-> "ref", val |-> v]

\* Mutant of default_storage: one slot short.
default_storage_short(lay) == [i \in 1..(lay.MAX_VARIANTS - 1) |-> V_DEFAULT]

\* [V; N]::DEFAULT and <[V; N] as Default>::default(): N copies of V's default.
default_storage(lay) == [i \in 1..lay.MAX_VARIANTS |-> V_DEFAULT]

\* slice::get_unchecked(idx): the slot when idx is in bounds; undefined
\* behaviour otherwise, which may read anything or fault.
get_unchecked(stor, idx) ==
    IF idx < Len(stor)
    THEN {Ref(stor[idx + 1])}
    ELSE {Ref(v) : v \in Values} \cup {[kind |-> "fault", val |-> ""]}

\* Mutant of index_checked: reads the slot after the one asked for.
index_checked_off_by_one(stor, idx) ==
    IF idx < Len(stor)
    THEN Ref(stor[((idx + 1) % Len(stor)) + 1])
    ELSE [kind |-> "panic", val |-> ""]

\* &storage[idx]: the slot when idx is in bounds, a bounds-check panic otherwise.
index_checked(stor, idx) ==
    IF idx < Len(stor) THEN Ref(stor[idx + 1]) ELSE [kind |-> "panic", val |-> ""]

\* Mutant of store_unchecked: writes the slot after the one asked for.
store_unchecked_off_by_one(stor, idx, v) ==
    IF idx < Len(stor)
    THEN {[kind |-> "ok", storage |-> [stor EXCEPT ![((idx + 1) % Len(stor)) + 1] = v]]}
    ELSE {[kind |-> "ok", storage |-> s] : s \in [1..Len(stor) -> Values]}
             \cup {[kind |-> "fault", storage |-> stor]}

\* *slice.get_unchecked_mut(idx) = v: writes the slot when idx is in bounds;
\* undefined behaviour otherwise, which may clobber any slot or fault.
store_unchecked(stor, idx, v) ==
    IF idx < Len(stor)
    THEN {[kind |-> "ok", storage |-> [stor EXCEPT ![idx + 1] = v]]}
    ELSE {[kind |-> "ok", storage |-> s] : s \in [1..Len(stor) -> Values]}
             \cup {[kind |-> "fault", storage |-> stor]}

\* Mutant of store_checked: an index past the end is clamped to the last slot.
store_checked_clamped(stor, idx, v) ==
    IF idx < Len(stor)
    THEN [kind |-> "ok", storage |-> [stor EXCEPT ![idx + 1] = v]]
    ELSE IF Len(stor) > 0
    THEN [kind |-> "ok", storage |-> [stor EXCEPT ![Len(stor)] = v]]
    ELSE [kind |-> "panic", storage |-> stor]

\* *(&mut storage[idx]) = v: writes the slot, or panics and writes nothing.
store_checked(stor, idx, v) ==
    IF idx < Len(stor)
    THEN [kind |-> "ok", storage |-> [stor EXCEPT ![idx + 1] = v]]
    ELSE [kind |-> "panic", storage |-> stor]

\* The outcomes of map.get(key).
get(inp, lay, tpw, stor, key) == get_unchecked(stor, key_to_index(inp, lay, tpw, key))

\* The outcome of map.const_get(key).
const_get(inp, lay, tpw, stor, key) == index_checked(stor, key_to_index(inp, lay, tpw, key))

\* The outcomes of *map.get_mut(key) = v.
get_mut(inp, lay, tpw, stor, key, v) ==
    store_unchecked(stor, key_to_index(inp, lay, tpw, key), v)

\* The outcome of *map.const_get_mut(key) = v.
const_get_mut(inp, lay, tpw, stor, key, v) ==
    store_checked(stor, key_to_index(inp, lay, tpw, key), v)

\* map[key]
index(inp, lay, tpw, stor, key) == get(inp, lay, tpw, stor, key)

\* map[key] = v
index_mut(inp, lay, tpw, stor, key, v) == get_mut(inp, lay, tpw, stor, key, v)

\* const_array_map! { k1 => v1, k2 => v2, .. }: the block's statements after
\* let mut map = DEFAULT, one write per pair in written order. The macro of
\* const_array_map writes through const_get_mut, the one of const-assoc
\* through get_mut. A write that panics or faults ends the block.
RECURSIVE macro_writes(_, _, _, _, _, _)
macro_writes(inp, lay, tpw, accessor, stor, pairs) ==
    IF pairs = <<>>
    THEN {[kind |-> "ok", storage |-> stor]}
    ELSE LET key == Head(pairs)[1]
             v   == Head(pairs)[2]
             written == IF accessor = "const_get_mut"
                        THEN {const_get_mut(inp, lay, tpw, stor, key, v)}
                        ELSE get_mut(inp, lay, tpw, stor, key, v)
         IN  UNION {IF w.kind = "ok"
                    THEN macro_writes(inp, lay, tpw, accessor, w.storage, Tail(pairs))
                    ELSE {w} : w \in written}

\* Mutant of const_array_map: the pairs are written last to first.
const_array_map_reversed(inp, lay, tpw, accessor, pairs) ==
    macro_writes(inp, lay, tpw, accessor, default_storage(lay),
                 [i \in 1..Len(pairs) |-> pairs[Len(pairs) + 1 - i]])

const_array_map(inp, lay, tpw, accessor, pairs) ==
    macro_writes(inp, lay, tpw, accessor, default_storage(lay), pairs)

\* slice::iter() / iter_mut() / array::into_iter(): a cursor from slot 0 to the end.
slice_iter(kind, stor, buf) ==
    [kind |-> kind, pos |-> 0, end |-> Len(stor), buf |-> buf, yielded |-> <<>>]

\* Mutant of iter_next: yields from the back, as next_back does.
iter_next_back(it, stor) ==
    IF it.pos < it.end
    THEN [some |-> TRUE, slot |-> it.end - 1 - it.pos, val |-> stor[it.end - it.pos],
          iter |-> [it EXCEPT !.pos = it.pos + 1,
                              !.yielded = Append(it.yielded,
                                                 [slot |-> it.end - 1 - it.pos,
                                                  val |-> stor[it.end - it.pos]])]]
    ELSE [some |-> FALSE, slot |-> it.pos, val |-> "", iter |-> it]

\* Iterator::next on the cursor: the slot under it, then step; None at the end.
iter_next(it, stor) ==
    IF it.pos < it.end
    THEN [some |-> TRUE, slot |-> it.pos, val |-> stor[it.pos + 1],
          iter |-> [it EXCEPT !.pos = it.pos + 1,
                              !.yielded = Append(it.yielded,
                                                 [slot |-> it.pos, val |-> stor[it.pos + 1]])]]
    ELSE [some |-> FALSE, slot |-> it.pos, val |-> "", iter |-> it]

(* ------------------------------ state ---------------------------------- *)

TargetPointerWidths == {16, 32, 64}

NoOut == [op |-> "none", key |-> 0, kind |-> "", val |-> "", pairs |-> <<>>]

Out(op, key, kind, val) == [op |-> op, key |-> key, kind |-> kind, val |-> val, pairs |-> <<>>]

NoIter == [kind |-> "none", pos |-> 0, end |-> 0, buf |-> <<>>, yielded |-> <<>>]

\* The declarations containers are built for: #[repr(ty)] enums with implicit
\* numbering, as in tests/primitive_enum.rs, with 0..MaxVariants variants.
Init ==
    /\ input \in {PlainEnum(ty, n) : ty \in SupportedReprs, n \in 0..MaxVariants}
    /\ target_pointer_width \in TargetPointerWidths
    /\ layout = NoLayout
    /\ storage = <<>>
    /\ origin = "none"
    /\ expected = <<>>
    /\ out = NoOut
    /\ iter = NoIter

\* Any declaration the derive can be applied to.
GenInit ==
    /\ input \in GenInputs
    /\ target_pointer_width \in TargetPointerWidths
    /\ layout = NoLayout
    /\ storage = <<>>
    /\ origin = "none"
    /\ expected = <<>>
    /\ out = NoOut
    /\ iter = NoIter

\* ConstArrayMap<K, V> type-checks: K: PrimitiveEnum was emitted, and its
\* Discriminant is ConstIntoUSize on this target. An enum without variants
\* never gets this far: rustc refuses a repr attribute on it.
Usable ==
    /\ layout.state = "emitted"
    /\ ConstIntoUSize(layout.Discriminant, target_pointer_width)
    /\ Len(input.variants) >= 1

\* A container value exists and no value iterator borrows it.
Live == origin \in {"DEFAULT", "default", "const_array_map", "written"} /\ iter.kind = "none"

\* No container value exists (none was built yet, or the last one was
\* consumed and its iterator dropped): one may be built.
Idle == origin \in {"none", "moved"} /\ iter.kind = "none"

(* ------------------------------ actions -------------------------------- *)

\* #[derive(PrimitiveEnum)] expands once per declaration; whether the macro
\* crate was built with overflow checks is the build profile's choice.
Derive ==
    /\ layout.state = "pending"
    /\ \E overflow_checks \in BOOLEAN :
          layout' = derive_primitive_enum(input, overflow_checks)
    /\ UNCHANGED <<input, target_pointer_width, storage, origin, expected, out, iter>>

\* <ConstArrayMap<K, V> as ConstDefault>::DEFAULT
ConstDefault_DEFAULT ==
    /\ Usable /\ Idle
    /\ storage' = default_storage(layout)
    /\ origin' = "DEFAULT"
    /\ expected' = [k \in Keys(input) |-> V_DEFAULT]
    /\ out' = Out("DEFAULT", 0, "", "")
    /\ UNCHANGED <<input, target_pointer_width, layout, iter>>

\* <ConstArrayMap<K, V> as Default>::default()
Default_default ==
    /\ Usable /\ Idle
    /\ storage' = default_storage(layout)
    /\ origin' = "default"
    /\ expected' = [k \in Keys(input) |-> V_DEFAULT]
    /\ out' = Out("default", 0, "", "")
    /\ UNCHANGED <<input, target_pointer_width, layout, iter>>

\* The reference map after the pairs: plain function update, in order.
RECURSIVE Overwrite(_, _)
Overwrite(f, pairs) ==
    IF pairs = <<>> THEN f
    ELSE Overwrite([f EXCEPT ![Head(pairs)[1]] = Head(pairs)[2]], Tail(pairs))

\* let map = const_array_map! { pairs };
ConstArrayMapMacro ==
    /\ Usable /\ Idle
    /\ \E pairs \in SeqsUpTo(Keys(input) \X Values, MaxPairs) :
       \E accessor \in {"const_get_mut", "get_mut"} :
       \E r \in const_array_map(input, layout, target_pointer_width, accessor, pairs) :
          /\ storage' = r.storage
          /\ origin' = IF r.kind = "ok" THEN "const_array_map" ELSE "aborted"
          /\ expected' = Overwrite([k \in Keys(input) |-> V_DEFAULT], pairs)
          /\ out' = [op |-> "const_array_map", key |-> 0, kind |-> r.kind,
                     val |-> "", pairs |-> pairs]
    /\ UNCHANGED <<input, target_pointer_width, layout, iter>>

\* The common shape of a read: record what the accessor returned.
Read(op, key, r) ==
    /\ out' = Out(op, key, r.kind, r.val)
    /\ origin' = IF r.kind = "ref" THEN origin ELSE "aborted"
    /\ UNCHANGED <<input, target_pointer_width, layout, storage, expected, iter>>

\* The common shape of a write of v at key: take the accessor's outcome.
Write(op, key, v, r) ==
    /\ storage' = r.storage
    /\ origin' = IF r.kind = "ok" THEN "written" ELSE "aborted"
    /\ expected' = IF r.kind = "ok" THEN [expected EXCEPT ![key] = v] ELSE expected
    /\ out' = Out(op, key, r.kind, v)
    /\ UNCHANGED <<input, target_pointer_width, layout, iter>>

Get ==
    /\ Live
    /\ \E key \in Keys(input) :
       \E r \in get(input, layout, target_pointer_width, storage, key) :
          Read("get", key, r)

ConstGet ==
    /\ Live
    /\ \E key \in Keys(input) :
          Read("const_get", key, const_get(input, layout, target_pointer_width, storage, key))

Index ==
    /\ Live
    /\ \E key \in Keys(input) :
       \E r \in index(input, layout, target_pointer_width, storage, key) :
          Read("index", key, r)

GetMut ==
    /\ Live
    /\ \E key \in Keys(input), v \in Values :
       \E r \in get_mut(input, layout, target_pointer_width, storage, key, v) :
          Write("get_mut", key, v, r)

ConstGetMut ==
    /\ Live
    /\ \E key \in Keys(input), v \in Values :
          Write("const_get_mut", key, v,
                const_get_mut(input, layout, target_pointer_width, storage, key, v))

IndexMut ==
    /\ Live
    /\ \E key \in Keys(input), v \in Values :
       \E r \in index_mut(input, layout, target_pointer_width, storage, key, v) :
          Write("index_mut", key, v, r)

\* let it = map.values();
ValuesCall ==
    /\ Live
    /\ iter' = slice_iter("values", storage, <<>>)
    /\ out' = Out("values", 0, "", "")
    /\ UNCHANGED <<input, target_pointer_width, layout, storage, origin, expected>>

\* let it = map.values_mut();
ValuesMutCall ==
    /\ Live
    /\ iter' = slice_iter("values_mut", storage, <<>>)
    /\ out' = Out("values_mut", 0, "", "")
    /\ UNCHANGED <<input, target_pointer_width, layout, storage, origin, expected>>

\* let it = map.into_values(); the array moves into the iterator.
IntoValuesCall ==
    /\ Live
    /\ iter' = slice_iter("into_values", storage, storage)
    /\ storage' = <<>>
    /\ origin' = "moved"
    /\ out' = Out("into_values", 0, "", "")
    /\ UNCHANGED <<input, target_pointer_width, layout, expected>>

\* it.next()
IterNext ==
    /\ iter.kind # "none"
    /\ LET n == iter_next(iter, IF iter.kind = "into_values" THEN iter.buf ELSE storage)
       IN  /\ iter' = n.iter
           /\ out' = Out(IF n.some THEN "next" ELSE "next_none", 0, "", n.val)
    /\ UNCHANGED <<input, target_pointer_width, layout, storage, origin, expected>>

\* *item = v, for the item values_mut() yielded last.
AssignYielded ==
    /\ iter.kind = "values_mut" /\ iter.pos > 0
    /\ \E v \in Values :
          /\ storage' = [storage EXCEPT ![iter.pos] = v]
          /\ expected' = [k \in Keys(input) |->
                            IF key_to_index(input, layout, target_pointer_width, k) = iter.pos - 1
                            THEN v ELSE expected[k]]
          /\ out' = Out("assign_yielded", 0, "", v)
    /\ origin' = "written"
    /\ UNCHANGED <<input, target_pointer_width, layout, iter>>

\* The iterator goes out of scope.
DropIter ==
    /\ iter.kind # "none"
    /\ iter' = NoIter
    /\ out' = Out("drop", 0, "", "")
    /\ UNCHANGED <<input, target_pointer_width, layout, storage, origin, expected>>

Next ==
    \/ Derive
    \/ ConstDefault_DEFAULT
    \/ Default_default
    \/ ConstArrayMapMacro
    \/ Get
    \/ ConstGet
    \/ Index
    \/ GetMut
    \/ ConstGetMut
    \/ IndexMut
    \/ ValuesCall
    \/ ValuesMutCall
    \/ IntoValuesCall
    \/ IterNext
    \/ AssignYielded
    \/ DropIter

Spec == Init /\ [][Next]_vars

\* The derive alone, on every declaration, and the type it makes usable.
GenNext ==
    \/ Derive
    \/ ConstDefault_DEFAULT

GenSpec == GenInit /\ [][GenNext]_vars

\* unsafe impl PrimitiveEnum for K { type Layout = PrimitiveEnumLayout<D, N>; }
\* written by hand: D is K's repr, and N is whatever the author wrote, the
\* number of variants or not.
HandWritten ==
    /\ layout.state = "pending"
    /\ \E n \in 0..(MaxVariants + 1) :
          layout' = [state |-> "emitted", Discriminant |-> declared_repr(input),
                     MAX_VARIANTS |-> n, diagnostic |-> ""]
    /\ UNCHANGED <<input, target_pointer_width, storage, origin, expected, out, iter>>

\* Key types with at least one variant, as rustc accepts them under a repr.
HandInit ==
    /\ input \in {PlainEnum(ty, n) : ty \in SupportedReprs, n \in 1..MaxVariants}
    /\ target_pointer_width \in TargetPointerWidths
    /\ layout = NoLayout
    /\ storage = <<>>
    /\ origin = "none"
    /\ expected = <<>>
    /\ out = NoOut
    /\ iter = NoIter

\* A container over a key type whose layout was written by hand, reached
\* through the checked accessors.
HandNext ==
    \/ HandWritten
    \/ ConstDefault_DEFAULT
    \/ ConstGet
    \/ ConstGetMut

HandSpec == HandInit /\ [][HandNext]_vars

\* No key type is declared: into_usize is called on plain integers.
NoInput == DeriveInput("None", <<>>, <<>>)

\* Greatest integer the model holds (TLC's integers are 32 bits wide, signed).
IntMax == (2 ^ 30 - 1) * 2 + 1

\* T::MAX of a primitive integer type on the target, as far as the model holds it.
MAX(ty, tpw) == IF BITS(ty, tpw) >= 31 THEN IntMax ELSE 2 ^ BITS(ty, tpw) - 1

\* The values of type ty handed to into_usize: those within MaxNear of 0, of
\* u8::MAX, of u16::MAX and of the greatest integer the model holds.
ValuesOf(ty, tpw) ==
    {v \in (0..MaxNear) \cup ((255 - MaxNear)..(256 + MaxNear))
              \cup ((65535 - MaxNear)..(65536 + MaxNear))
              \cup {IntMax - d : d \in 0..MaxNear} : v <= MAX(ty, tpw)}

ConvInit ==
    /\ input = NoInput
    /\ target_pointer_width \in TargetPointerWidths
    /\ layout = NoLayout
    /\ storage = <<>>
    /\ origin = "none"
    /\ expected = <<>>
    /\ out = NoOut
    /\ iter = NoIter

\* let n = into_usize(v) for v: T, T: ConstIntoUSize on this target.
IntoUSize ==
    /\ \E ty \in IntoUSizeWitness(target_pointer_width) :
       \E v \in ValuesOf(ty, target_pointer_width) :
          out' = [op |-> "into_usize", key |-> v, kind |-> ty,
                  val |-> into_usize([ty |-> ty, bits |-> v], target_pointer_width),
                  pairs |-> <<>>]
    /\ UNCHANGED <<input, target_pointer_width, layout, storage, origin, expected, iter>>

ConvNext == IntoUSize

ConvSpec == ConvInit /\ [][ConvNext]_vars

(* ------------------------------ properties ----------------------------- *)

\* The index the container computes for a key of the current key type.
IndexOf(k) == key_to_index(input, layout, target_pointer_width, k)

\* A container value exists (borrowed by an iterator or not).
HasMap == origin \in {"DEFAULT", "default", "const_array_map", "written"}

\* C1: for a key type whose layout the derive emitted, every key's index is
\* in 0..MAX_VARIANTS-1, distinct keys have distinct indices, every index is
\* inside the storage array of any container built, and no access ever
\* panicked or faulted.
C1_IndexInBounds ==
    Usable =>
        /\ \A k \in Keys(input) : 0 <= IndexOf(k) /\ IndexOf(k) < layout.MAX_VARIANTS
        /\ \A k1, k2 \in Keys(input) : k1 # k2 => IndexOf(k1) # IndexOf(k2)
        /\ HasMap => \A k \in Keys(input) : IndexOf(k) < Len(storage)
        /\ origin # "aborted"

\* A read of the last key of a three-variant enum returned a reference.
C1_Witness ==
    /\ Usable /\ Len(input.variants) = 3
    /\ out.op \in {"get", "const_get", "index"} /\ out.key = 3 /\ out.kind = "ref"

\* The position of the last pair naming k, 0 when no pair names it.
LastPair(pairs, k) ==
    IF \E i \in 1..Len(pairs) : pairs[i][1] = k
    THEN CHOOSE i \in 1..Len(pairs) :
            /\ pairs[i][1] = k
            /\ \A j \in 1..Len(pairs) : pairs[j][1] = k => j <= i
    ELSE 0

\* C2: right after const_array_map! { pairs }, every key named by a pair holds
\* the value of the last pair naming it, and every other key holds V's default.
C2_LastWriteWins ==
    out.op = "const_array_map" =>
        /\ out.kind = "ok"
        /\ \A k \in Keys(input) :
              get(input, layout, target_pointer_width, storage, k) =
                  {Ref(IF LastPair(out.pairs, k) = 0
                       THEN V_DEFAULT
                       ELSE out.pairs[LastPair(out.pairs, k)][2])}

\* A literal naming the same key twice with two different values, beside a
\* key it does not name.
C2_Witness ==
    /\ out.op = "const_array_map" /\ Len(out.pairs) = 2
    /\ out.pairs[1][1] = out.pairs[2][1]
    /\ out.pairs[1][2] # out.pairs[2][2]
    /\ Len(input.variants) >= 2

\* C3: while a container exists, get(k) and map[k] return, for every key, the
\* value the reference map holds: the one last written to k, or the one k was
\* constructed with; a write to k changes the reference map at k alone.
C3_MutationVisible ==
    HasMap =>
        \A k \in Keys(input) :
            /\ get(input, layout, target_pointer_width, storage, k) = {Ref(expected[k])}
            /\ index(input, layout, target_pointer_width, storage, k) = {Ref(expected[k])}

\* A write of a non-default value to one key, with another key still at the
\* default it was constructed with.
C3_Witness ==
    /\ out.op \in {"get_mut", "const_get_mut", "index_mut"} /\ out.kind = "ok"
    /\ out.val # V_DEFAULT
    /\ \E k \in Keys(input) : k # out.key /\ expected[k] = V_DEFAULT

\* C4: a container built by ConstDefault::DEFAULT or Default::default() and
\* not written since has MAX_VARIANTS slots, each V's default, and get returns
\* V's default at every key.
C4_DefaultFill ==
    origin \in {"DEFAULT", "default"} =>
        /\ Len(storage) = layout.MAX_VARIANTS
        /\ \A i \in 1..Len(storage) : storage[i] = V_DEFAULT
        /\ \A k \in Keys(input) :
              get(input, layout, target_pointer_width, storage, k) = {Ref(V_DEFAULT)}
        /\ out.op \in {"get", "const_get", "index"} => out.val = V_DEFAULT

\* A default-built container of the largest domain, read at its last key.
C4_Witness ==
    /\ origin = "default" /\ Len(input.variants) = MaxVariants
    /\ out.op = "get" /\ out.key = MaxVariants

\* C5: while a container exists, get and const_get return the same value at
\* every key, and a write of the same value through get_mut and through
\* const_get_mut gives the same storage.
C5_CheckedEqualsUnchecked ==
    HasMap =>
        \A k \in Keys(input) :
            /\ get(input, layout, target_pointer_width, storage, k)
                  = {const_get(input, layout, target_pointer_width, storage, k)}
            /\ \A v \in Values :
                  get_mut(input, layout, target_pointer_width, storage, k, v)
                      = {const_get_mut(input, layout, target_pointer_width, storage, k, v)}

\* const_get returned a non-default value from a container whose slots differ.
C5_Witness ==
    /\ out.op = "const_get" /\ out.kind = "ref" /\ out.val # V_DEFAULT
    /\ \E k \in Keys(input) : expected[k] = V_DEFAULT

\* The greatest discriminant among the variants (of a non-empty enum).
MaxDiscriminant(variants) ==
    CHOOSE m \in {discriminant(variants, i) : i \in 1..Len(variants)} :
        \A i \in 1..Len(variants) : discriminant(variants, i) <= m

\* C6: every layout the derive emits has MAX_VARIANTS equal to the number of
\* variants, which for a non-empty enum is its greatest discriminant plus one,
\* and a container built for it has exactly MAX_VARIANTS slots.
C6_SlotCount ==
    layout.state = "emitted" =>
        /\ layout.MAX_VARIANTS = Len(input.variants)
        /\ Len(input.variants) >= 1 =>
              layout.MAX_VARIANTS = MaxDiscriminant(input.variants) + 1
        /\ origin = "DEFAULT" => Len(storage) = layout.MAX_VARIANTS

\* The one-variant enum: MAX_VARIANTS 1 and a one-slot container.
C6_Witness ==
    /\ layout.state = "emitted" /\ Len(input.variants) = 1
    /\ layout.MAX_VARIANTS = 1
    /\ origin = "DEFAULT" /\ Len(storage) = 1

\* The declaration's repr attribute names exactly one supported primitive type.
ReprIsSupported(inp) ==
    /\ MatchingAttrs(inp.attrs) # {}
    /\ LET attr == inp.attrs[CHOOSE i \in MatchingAttrs(inp.attrs) :
                                 \A j \in MatchingAttrs(inp.attrs) : i <= j]
       IN  attr.meta = "List" /\ Len(attr.args) = 1 /\ attr.args[1] \in SupportedReprs

\* Some variant is explicitly assigned a value other than its position's.
OutOfSequence(variants) ==
    \E i \in 1..Len(variants) : variants[i].is_some /\ variants[i].value # i - 1

\* Some variant is explicitly assigned a value.
ExplicitlyNumbered(variants) == \E i \in 1..Len(variants) : variants[i].is_some

\* The derive succeeded with the declared representation and max + 1 slots.
EmittedAsDeclared ==
    /\ layout.state = "emitted"
    /\ layout.Discriminant = declared_repr(input)
    /\ layout.MAX_VARIANTS = MaxDiscriminant(input.variants) + 1

\* C7 as stated: a non-empty enum with a supported repr and no variant
\* explicitly assigned out of sequential order is never rejected.
C7_Original ==
    (/\ layout.state # "pending"
     /\ input.data = "Enum" /\ Len(input.variants) >= 1
     /\ ReprIsSupported(input)
     /\ ~OutOfSequence(input.variants)) => EmittedAsDeclared

\* C7: a non-empty enum whose first outer repr attribute names exactly one of
\* u8/u16/u32/u64/usize and that assigns no discriminant explicitly is
\* accepted, with the declared representation and max discriminant + 1 slots.
C7_Amended ==
    (/\ layout.state # "pending"
     /\ input.data = "Enum" /\ Len(input.variants) >= 1
     /\ ReprIsSupported(input)
     /\ ~ExplicitlyNumbered(input.variants)) => EmittedAsDeclared

\* A two-variant enum accepted behind an attribute that is not its repr.
C7_Witness ==
    /\ layout.state = "emitted" /\ Len(input.variants) = 2
    /\ Len(input.attrs) = 2 /\ input.attrs[1].path = "derive"
    /\ layout.Discriminant = "u32"

\* No repr attribute of the declaration names a supported primitive type.
ReprUnsupported(inp) ==
    /\ MatchingAttrs(inp.attrs) # {}
    /\ \A i \in MatchingAttrs(inp.attrs) :
          ~(inp.attrs[i].meta = "List"
            /\ \E j \in 1..Len(inp.attrs[i].args) : inp.attrs[i].args[j] \in SupportedReprs)

IllFormed(inp) ==
    \/ inp.data # "Enum"
    \/ MatchingAttrs(inp.attrs) = {}
    \/ ReprUnsupported(inp)
    \/ OutOfSequence(inp.variants)

\* C8: for a declaration that is not an enum, has no repr, has no supported
\* repr, or assigns a discriminant out of sequence, derive returns an error,
\* no layout is ever emitted and no container is ever built.
C8_FailsClosed ==
    IllFormed(input) =>
        /\ \A overflow_checks \in BOOLEAN : derive(input, overflow_checks).status = "Err"
        /\ layout.state \in {"pending", "failed"}
        /\ layout.state = "failed" => layout.diagnostic # ""
        /\ ~Usable
        /\ origin = "none" /\ storage = <<>>

\* An enum with a supported repr rejected for an out-of-sequence discriminant.
C8_Witness ==
    /\ layout.state = "failed"
    /\ input.data = "Enum" /\ ReprIsSupported(input)
    /\ OutOfSequence(input.variants)

\* The key whose index is the given slot.
KeyAt(slot) == CHOOSE k \in Keys(input) : IndexOf(k) = slot

LayoutsAs(ty) ==
    {lay \in {derive_primitive_enum(PlainEnum(ty, Len(input.variants)), overflow_checks) :
                 overflow_checks \in BOOLEAN} : lay.state = "emitted"}

\* The operations that build a container or change its contents.
StorageOps ==
    {"DEFAULT", "default", "const_array_map",
     "get_mut", "const_get_mut", "index_mut", "assign_yielded"}

\* C10: whatever other supported representation the same enum is declared
\* with on this target, the derive emits the same MAX_VARIANTS, every key has
\* the same index, the same literal builds the same container, and after
\* every step that builds or changes the container every read returns the
\* same value and every further write gives the same contents: the
\* containers of all widths go through the same states.
C10_CrossWidth ==
    Usable =>
        \A ty \in IntoUSizeWitness(target_pointer_width) \ {layout.Discriminant} :
        \A lay \in LayoutsAs(ty) :
            LET inp == PlainEnum(ty, Len(input.variants))
                tpw == target_pointer_width
            IN  /\ lay.MAX_VARIANTS = layout.MAX_VARIANTS
                /\ default_storage(lay) = default_storage(layout)
                /\ \A k \in Keys(input) : key_to_index(inp, lay, tpw, k) = IndexOf(k)
                /\ out.op = "const_array_map" =>
                      \A accessor \in {"const_get_mut", "get_mut"} :
                          const_array_map(inp, lay, tpw, accessor, out.pairs)
                              = {[kind |-> "ok", storage |-> storage]}
                /\ HasMap /\ out.op \in StorageOps =>
                      \A k \in Keys(input) :
                          /\ get(inp, lay, tpw, storage, k)
                                = get(input, layout, tpw, storage, k)
                          /\ const_get(inp, lay, tpw, storage, k)
                                = const_get(input, layout, tpw, storage, k)
                          /\ \A v \in Values :
                                /\ get_mut(inp, lay, tpw, storage, k, v)
                                      = get_mut(input, layout, tpw, storage, k, v)
                                /\ const_get_mut(inp, lay, tpw, storage, k, v)
                                      = const_get_mut(input, layout, tpw, storage, k, v)

\* A u64 enum on a 64-bit target, written and then read at its last key.
C10_Witness ==
    /\ Usable /\ target_pointer_width = 64 /\ layout.Discriminant = "u64"
    /\ Len(input.variants) = 3
    /\ origin = "written" /\ out.op = "get" /\ out.key = 3 /\ out.val # V_DEFAULT

\* C12: a checked accessor called with a key whose index is at or past
\* MAX_VARIANTS panics: it returns no reference, leaves every slot (and the
\* reference map) as it was, and the program takes no further step; with a
\* key whose index is below MAX_VARIANTS it never panics.
C12_CheckedTrap ==
    [][/\ origin # "aborted"
       /\ out'.op \in {"const_get", "const_get_mut"} =>
             IF IndexOf(out'.key) >= layout.MAX_VARIANTS
             THEN /\ out'.kind = "panic"
                  /\ origin' = "aborted"
                  /\ storage' = storage
                  /\ expected' = expected
             ELSE /\ out'.kind \in {"ref", "ok"}
                  /\ origin' # "aborted"]_vars

\* const_get_mut panicked on a key past the end of a container that has slots.
C12_Witness ==
    /\ out.op = "const_get_mut"
    /\ out.kind = "panic"
    /\ origin = "aborted"
    /\ IndexOf(out.key) >= layout.MAX_VARIANTS
    /\ Len(storage) > 0

\* C11: into_usize is value-preserving and total: on every target, for every
\* type the target's witness lists and every value of that type, the result
\* is an integer of the native width and is the same number as the argument.
C11_ValuePreserving ==
    out.op = "into_usize" =>
        /\ out.val >= 0 /\ out.val <= MAX("usize", target_pointer_width)
        /\ out.val = out.key
        /\ BITS(out.kind, target_pointer_width) <= target_pointer_width

\* A u16 above u8::MAX went through into_usize on the narrowest target.
C11_Witness ==
    /\ out.op = "into_usize"
    /\ out.kind = "u16"
    /\ out.key > 255
    /\ target_pointer_width = 16

\* C13: for every enum whose repr the derive accepts and that assigns no
\* discriminant explicitly, the empty enum included, variants.len() - 1 and
\* the + 1 after it neither underflow nor wrap under either build profile, the
\* derive completes, and MAX_VARIANTS is the number of declared variants.
C13_NoUnderflow ==
    (/\ layout.state # "pending"
     /\ input.data = "Enum"
     /\ ReprIsSupported(input)
     /\ ~ExplicitlyNumbered(input.variants)) =>
        /\ layout.state = "emitted"
        /\ layout.MAX_VARIANTS = Len(input.variants)
        /\ \A overflow_checks \in BOOLEAN :
              /\ max_discriminant(input.variants, overflow_checks).status = "Ok"
              /\ max_discriminant(input.variants, overflow_checks).value
                     = Len(input.variants) - 1

====
